---- MODULE Spec2Model ----
(***************************************************************************)
(* ForecastingVolume.ipynb: the lag-feature pipeline over the DJIA stock   *)
(* table and the time-based train/test split that feeds the random forest  *)
(* and the automated model search.                                         *)
(*                                                                         *)
(* A DataFrame is a set of rows (Spark gives a DataFrame no row order); a  *)
(* row is a record from column name to value.  Every column of the schema  *)
(* is nullable.  A null number is NULL, a null Name is NullName (the CSV   *)
(* reader turns an empty field into null).                                 *)
(***************************************************************************)
EXTENDS Integers, Sequences, FiniteSets, TLC

VARIABLES stock_df, ext_stock_df, col_names, ext_stock_hf, predictors,
          response, is_test, train, test, drf_call, automl_call, pc,
          earlier_runs

vars == <<stock_df, ext_stock_df, col_names, ext_stock_hf, predictors,
          response, is_test, train, test, drf_call, automl_call, pc,
          earlier_runs>>

-----------------------------------------------------------------------------
(* Bounds of the explored inputs *)

MaxRowsAAPL == 9
MaxRowsIBM == 8
MaxStart == 3

-----------------------------------------------------------------------------
(* Values *)

NULL == -1
NullName == ""

IsNull(c, v) == IF c = "Name" THEN v = NullName ELSE v = NULL

\* schema = StructType([... 7 StructFields, all nullable ...])
schema == <<"Date", "Open", "High", "Low", "Close", "Volume", "Name">>

Range(s) == {s[i] : i \in 1..Len(s)}

\* Trading days the input file may hold, ascending, written yyyymmdd.
Calendar == <<20161229, 20171129, 20171220, 20171221, 20171222, 20171226,
              20171227, 20171228, 20171229, 20171230, 20180102, 20181229,
              20190102, 20190103>>

\* H2OFrame.year(), .month(), .day() of a time column
year(d) == d \div 10000
month(d) == (d \div 100) % 100
day(d) == d % 100

-----------------------------------------------------------------------------
(* Input files: spark.read.csv(..., header = True, schema = schema) *)

TickerOffset(name) == IF name = "IBM" THEN 5 ELSE 0

\* The k-th row of a ticker; every measurement identifies its row.
CsvRow(name, k, dateIdx) ==
    [Date   |-> Calendar[dateIdx],
     Open   |-> 10 * k + 1 + TickerOffset(name),
     High   |-> 10 * k + 3 + TickerOffset(name),
     Low    |-> 10 * k + 0 + TickerOffset(name),
     Close  |-> 10 * k + 2 + TickerOffset(name),
     Volume |-> 100 * k + 10 * TickerOffset(name),
     Name   |-> name]

NullCell(r, c) ==
    [f \in DOMAIN r |-> IF f = c THEN (IF c = "Name" THEN NullName ELSE NULL)
                                 ELSE r[f]]

\* tie = t > 0: rows t and t+1 of AAPL carry the same Date.
DateIdx(start, k, tie) == start + k - 1 - (IF tie > 0 /\ k > tie THEN 1 ELSE 0)

CsvRows(nA, nB, start, tie) ==
    {CsvRow("AAPL", k, DateIdx(start, k, tie)) : k \in 1..nA}
    \cup {CsvRow("IBM", k, k + 1) : k \in 1..nB}

\* A file of both tickers, clean or with one empty cell.
FilesOfBoth ==
    UNION {
      LET clean == CsvRows(nA, nB, start, 0) IN
        {clean}
        \cup {(clean \ {r}) \cup {NullCell(r, c)} : r \in clean, c \in Range(schema)}
      : nA \in 0..MaxRowsAAPL, nB \in 0..MaxRowsIBM, start \in 1..MaxStart }

\* A file of AAPL only in which two consecutive rows share a Date.
FilesWithTie ==
    UNION { {CsvRows(nA, 0, start, t) : t \in 1..(nA - 1)}
      : nA \in 0..MaxRowsAAPL, start \in 1..MaxStart }

CsvFiles == FilesOfBoth \cup FilesWithTie

-----------------------------------------------------------------------------
(* w = Window().partitionBy(col("Name")).orderBy(col("Date")) *)

\* Window().orderBy(col("Date")) alone: one window over the whole table.
PartitionKey_Unpartitioned(r) == "*"

PartitionKey(r) == r.Name

\* Ordering by month and day only, the year lost.
OrderKey_MonthDay(r) == r.Date % 10000

OrderKey(r) == r.Date

Partition(df, key) == {r \in df : PartitionKey(r) = key}

\* Every arrangement of a partition that is ascending in the order key (nulls
\* first); rows with equal keys come in either order.
RECURSIVE Orders(_)
Orders(S) ==
    IF S = {} THEN {<<>>}
    ELSE LET first == {r \in S : \A q \in S : OrderKey(r) <= OrderKey(q)}
         IN UNION {{<<r>> \o rest : rest \in Orders(S \ {r})} : r \in first}

\* lag(column, count).over(w) at position i of an ordered partition
lag(o, i, column, count) ==
    IF i - count >= 1 THEN o[i - count][column] ELSE NULL

\* One row of select("*", lag(..).alias(..), ...): lags is a set of
\* [column, count, alias].
WithLags(o, i, lags) ==
    o[i] @@ [a \in {l.alias : l \in lags} |->
                LET l == CHOOSE l \in lags : l.alias = a
                IN lag(o, i, l.column, l.count)]

\* All the frames df.select("*", <lags>) can evaluate to.
RECURSIVE SelectOver(_, _, _)
SelectOver(df, keys, lags) ==
    IF keys = {} THEN {{}}
    ELSE LET key == CHOOSE k \in keys : TRUE
             parts == {{WithLags(o, i, lags) : i \in 1..Len(o)}
                         : o \in Orders(Partition(df, key))}
         IN {p \cup rest : p \in parts, rest \in SelectOver(df, keys \ {key}, lags)}

select(df, lags) == SelectOver(df, {PartitionKey(r) : r \in df}, lags)

\* na.drop(how = "all"): a row goes only when every column is null.
na_drop_HowAll(df) == {r \in df : \E c \in DOMAIN r : ~IsNull(c, r[c])}

\* DataFrame.na.drop(): how = "any" over every column
na_drop(df) == {r \in df : \A c \in DOMAIN r : ~IsNull(c, r[c])}

VolumeLags == {[column |-> "Volume", count |-> 1, alias |-> "Volume_lag1"],
               [column |-> "Volume", count |-> 2, alias |-> "Volume_lag2"],
               [column |-> "Volume", count |-> 3, alias |-> "Volume_lag3"]}

CloseLag == {[column |-> "Close", count |-> 1, alias |-> "Close_lag1"]}
LowLag == {[column |-> "Low",   count |-> 1, alias |-> "Low_lag1"]}
HighLag == {[column |-> "High",  count |-> 1, alias |-> "High_lag1"]}
OpenLag == {[column |-> "Open",  count |-> 1, alias |-> "Open_lag1"]}

-----------------------------------------------------------------------------
(* Predictors and the split *)

Denylist == {"Volume", "Open", "Close", "High", "Low"}

\* Only the response is taken out of the column names.
SetPredictors_OnlyResponse(names) == Range(names) \ {"Volume"}

\* list(set(ext_stock_hf.col_names) - set([...]))
SetPredictors(names) == Range(names) \ Denylist

\* The day() conjunct left out: all of December 2017.
IsTest_AnyDay(r) ==
    IF year(r.Date) = 2017 /\ month(r.Date) = 12 THEN 1 ELSE 0

\* (Date.year() == 2017) & (Date.month() == 12) & (Date.day() == 29)
IsTest(r) ==
    IF year(r.Date) = 2017 /\ month(r.Date) = 12 /\ day(r.Date) = 29 THEN 1 ELSE 0

\* train taken without the mask.
TrainRows_Unfiltered(hf, mask) == hf

\* ext_stock_hf[is_test == 0], ext_stock_hf[is_test == 1]
TrainRows(hf, mask) == {r \in hf : mask[r] = 0}
TestRows(hf, mask) == {r \in hf : mask[r] = 1}

-----------------------------------------------------------------------------
(* The notebook, cell by cell *)

Init ==
    /\ stock_df \in CsvFiles
    /\ ext_stock_df = {}
    /\ col_names = schema
    /\ ext_stock_hf = {}
    /\ predictors = {}
    /\ response = ""
    /\ is_test = <<>>
    /\ train = {}
    /\ test = {}
    /\ drf_call = <<>>
    /\ automl_call = <<>>
    /\ pc = "loaded"
    /\ earlier_runs = <<>>

LagPass(df, lags, from, to) ==
    /\ pc = from
    /\ \E out \in select(df, lags) : ext_stock_df' = na_drop(out)
    /\ pc' = to

AddVolumeLags ==
    /\ LagPass(stock_df, VolumeLags, "loaded", "volume")
    /\ col_names' = schema \o <<"Volume_lag1", "Volume_lag2", "Volume_lag3">>
    /\ UNCHANGED <<stock_df, ext_stock_hf, predictors, response, is_test, train,
                   test, drf_call, automl_call, earlier_runs>>

AddCloseLag ==
    /\ LagPass(ext_stock_df, CloseLag, "volume", "close")
    /\ col_names' = Append(col_names, "Close_lag1")
    /\ UNCHANGED <<stock_df, ext_stock_hf, predictors, response, is_test, train,
                   test, drf_call, automl_call, earlier_runs>>

AddLowLag ==
    /\ LagPass(ext_stock_df, LowLag, "close", "low")
    /\ col_names' = Append(col_names, "Low_lag1")
    /\ UNCHANGED <<stock_df, ext_stock_hf, predictors, response, is_test, train,
                   test, drf_call, automl_call, earlier_runs>>

AddHighLag ==
    /\ LagPass(ext_stock_df, HighLag, "low", "high")
    /\ col_names' = Append(col_names, "High_lag1")
    /\ UNCHANGED <<stock_df, ext_stock_hf, predictors, response, is_test, train,
                   test, drf_call, automl_call, earlier_runs>>

AddOpenLag ==
    /\ LagPass(ext_stock_df, OpenLag, "high", "lagged")
    /\ col_names' = Append(col_names, "Open_lag1")
    /\ UNCHANGED <<stock_df, ext_stock_hf, predictors, response, is_test, train,
                   test, drf_call, automl_call, earlier_runs>>

\* The two feature-engineering cells are executed again on the same stock_df;
\* earlier_runs keeps what the first execution left in ext_stock_df.
RerunLagCells ==
    /\ pc = "lagged"
    /\ earlier_runs = <<>>
    /\ earlier_runs' = <<ext_stock_df>>
    /\ pc' = "loaded"
    /\ UNCHANGED <<stock_df, ext_stock_df, col_names, ext_stock_hf, predictors,
                   response, is_test, train, test, drf_call, automl_call>>

AsH2OFrame ==
    /\ pc = "lagged"
    /\ ext_stock_hf' = ext_stock_df
    /\ pc' = "h2o"
    /\ UNCHANGED <<stock_df, ext_stock_df, col_names, predictors, response,
                   is_test, train, test, drf_call, automl_call, earlier_runs>>

ChoosePredictors ==
    /\ pc = "h2o"
    /\ predictors' = SetPredictors(col_names)
    /\ response' = "Volume"
    /\ pc' = "predictors"
    /\ UNCHANGED <<stock_df, ext_stock_df, col_names, ext_stock_hf, is_test,
                   train, test, drf_call, automl_call, earlier_runs>>

SplitByTime ==
    /\ pc = "predictors"
    /\ is_test' = [r \in ext_stock_hf |-> IsTest(r)]
    /\ train' = TrainRows(ext_stock_hf, is_test')
    /\ test' = TestRows(ext_stock_hf, is_test')
    /\ pc' = "split"
    /\ UNCHANGED <<stock_df, ext_stock_df, col_names, ext_stock_hf, predictors,
                   response, drf_call, automl_call, earlier_runs>>

TrainDRF ==
    /\ pc = "split"
    /\ drf_call' = <<[x |-> predictors, y |-> response,
                      training_frame |-> train, validation_frame |-> test]>>
    /\ pc' = "drf"
    /\ UNCHANGED <<stock_df, ext_stock_df, col_names, ext_stock_hf, predictors,
                   response, is_test, train, test, automl_call, earlier_runs>>

TrainAutoML ==
    /\ pc = "drf"
    /\ automl_call' = <<[x |-> predictors, y |-> response,
                         training_frame |-> train, leaderboard_frame |-> test]>>
    /\ pc' = "automl"
    /\ UNCHANGED <<stock_df, ext_stock_df, col_names, ext_stock_hf, predictors,
                   response, is_test, train, test, drf_call, earlier_runs>>

Next ==
    \/ AddVolumeLags
    \/ AddCloseLag
    \/ AddLowLag
    \/ AddHighLag
    \/ AddOpenLag
    \/ RerunLagCells
    \/ AsH2OFrame
    \/ ChoosePredictors
    \/ SplitByTime
    \/ TrainDRF
    \/ TrainAutoML

Spec == Init /\ [][Next]_vars

-----------------------------------------------------------------------------
(* Vocabulary of the properties *)

AllLags == VolumeLags \cup CloseLag \cup LowLag \cup HighLag \cup OpenLag

LagAliases == {l.alias : l \in AllLags}

LastDayOfData == 20171229

\* The input row an augmented row was built from.
Orig(r) == [c \in Range(schema) |-> r[c]]

OrigPartition(name) == {s \in stock_df : s.Name = name}

\* Zero-indexed position of an input row in its partition sorted by Date.
Pos(s) == Cardinality({q \in OrigPartition(s.Name) : q.Date < s.Date})

RowAt(name, i) == CHOOSE q \in OrigPartition(name) : Pos(q) = i

NoTies(df) == \A a, b \in df : (a # b /\ a.Name = b.Name) => a.Date # b.Date

NoNulls(df) == \A r \in df : \A c \in DOMAIN r : r[c] # (IF c = "Name" THEN "" ELSE -1)

Max(a, b) == IF a >= b THEN a ELSE b

Split == pc \in {"split", "drf", "automl"}

AfterLagPass == pc \in {"volume", "close", "low", "high", "lagged"}

\* Every lag field of r holds the source column's value of some input row,
\* and every input row holding that value has r's Name.
LagsReadFromOwnEntity(r) ==
    \A l \in AllLags :
        l.alias \in DOMAIN r =>
            /\ \E s \in stock_df : s[l.column] = r[l.alias]
            /\ \A s \in stock_df : s[l.column] = r[l.alias] => s.Name = r.Name

-----------------------------------------------------------------------------
(* C1 *)

\* C1: lag correctness of the whole pipeline.  When the lag cells have run on
\* a table whose partitions have no repeated Date, every row of the final
\* ext_stock_df sits at a position i >= 3 of its original partition and
\* carries Volume_lag1/2/3 = Volume at i-1/i-2/i-3 and Close_lag1, Low_lag1,
\* High_lag1, Open_lag1 = Close, Low, High, Open at i-1.
C1_LagCorrectness ==
    (pc = "lagged" /\ NoTies(stock_df)) =>
        \A r \in ext_stock_df :
            LET i == Pos(Orig(r)) IN
            \A l \in AllLags :
                /\ i >= l.count
                /\ r[l.alias] = RowAt(r.Name, i - l.count)[l.column]

-----------------------------------------------------------------------------
(* C2 *)

\* C2: drop consistency.  When the lag cells have run, every partition without
\* nulls and with strictly increasing Dates has max(0, size - 3) rows in the
\* final ext_stock_df.
C2_DropConsistency ==
    pc = "lagged" =>
        \A name \in {s.Name : s \in stock_df} :
            LET P == OrigPartition(name) IN
            (NoNulls(P) /\ NoTies(P)) =>
                Cardinality({r \in ext_stock_df : r.Name = name})
                    = Max(0, Cardinality(P) - 3)

-----------------------------------------------------------------------------
(* C3 *)

\* C3: partition isolation.  After every lag pass, and in train and test,
\* each lag field of a row was read from an input row of the same Name.
C3_PartitionIsolation ==
    /\ AfterLagPass => \A r \in ext_stock_df : LagsReadFromOwnEntity(r)
    /\ Split => /\ \A r \in train : LagsReadFromOwnEntity(r)
                /\ \A r \in test : LagsReadFromOwnEntity(r)

\* Both tickers carry lag fields, and their Dates interleave in the input.
C3_Witness ==
    /\ pc = "split"
    /\ \E a, b \in train \cup test : a.Name = "AAPL" /\ b.Name = "IBM"
    /\ \E a, b, c \in stock_df :
          /\ a.Name = "AAPL" /\ b.Name = "IBM" /\ c.Name = "AAPL"
          /\ a.Date < b.Date /\ b.Date < c.Date

-----------------------------------------------------------------------------
(* C4 *)

\* C4: split disjointness and coverage.  Once the split cell has run, train
\* and test share no row and together are exactly ext_stock_hf, row for row.
C4_SplitDisjointCover ==
    Split =>
        /\ train \cap test = {}
        /\ train \cup test = ext_stock_hf
        /\ Cardinality(train) + Cardinality(test) = Cardinality(ext_stock_hf)

C4_Witness ==
    /\ pc = "split"
    /\ train # {}
    /\ \E a, b \in test : a.Name # b.Name

-----------------------------------------------------------------------------
(* C5 *)

\* C5: a null dependency is dropped, not substituted.  When the lag cells have
\* run on a table without repeated Dates, an input row whose lag lookup lands
\* on a null source cell (position i-k of its partition) has no row in the
\* final ext_stock_df.
C5_NullDependencyDropped ==
    (pc = "lagged" /\ NoTies(stock_df)) =>
        \A s \in stock_df : \A l \in AllLags :
            (/\ Pos(s) >= l.count
             /\ RowAt(s.Name, Pos(s) - l.count)[l.column] = -1)
                => ~ \E r \in ext_stock_df : Orig(r) = s

-----------------------------------------------------------------------------
(* C6 *)

\* C6 as stated: running the lag cells a second time on the same stock_df
\* leaves the same ext_stock_df as the first run, for every input, repeated
\* Dates within a partition included.
C6_RerunIdentical ==
    (pc = "lagged" /\ earlier_runs # <<>>) => ext_stock_df = earlier_runs[1]

\* C6 amended: on a stock_df in which no two rows of one partition share a
\* Date, running the lag cells a second time leaves the same ext_stock_df as
\* the first run.
C6_RerunIdenticalNoTies ==
    (pc = "lagged" /\ earlier_runs # <<>> /\ NoTies(stock_df))
        => ext_stock_df = earlier_runs[1]

C6_Witness ==
    /\ pc = "lagged"
    /\ earlier_runs # <<>>
    /\ NoTies(stock_df)
    /\ Cardinality(ext_stock_df) >= 2

-----------------------------------------------------------------------------
(* C7 *)

-----------------------------------------------------------------------------
(* C8 *)

\* C8: drop, don't impute.  After every lag pass and in the final dataset no
\* row has a null in any column, every row has exactly the columns of
\* col_names, and each lag field holds a value some input row holds in the
\* source column.
C8_NoNullsNoImputation ==
    /\ AfterLagPass => \A r \in ext_stock_df :
          /\ DOMAIN r = Range(col_names)
          /\ \A c \in DOMAIN r : r[c] # (IF c = "Name" THEN "" ELSE -1)
          /\ \A l \in AllLags :
                l.alias \in DOMAIN r => \E s \in stock_df : s[l.column] = r[l.alias]
    /\ pc = "lagged" => Range(col_names) = Range(schema) \cup LagAliases
    /\ pc = "h2o" =>
          \A r \in ext_stock_hf : \A c \in DOMAIN r : r[c] # (IF c = "Name" THEN "" ELSE -1)

\* A table with an empty cell went through all five passes and rows remain.
C8_Witness ==
    /\ pc = "lagged"
    /\ ext_stock_df # {}
    /\ ~ NoNulls(stock_df)

-----------------------------------------------------------------------------
(* C9 *)

\* C9: predictors by exclusion.  The x passed to the random forest and to the
\* automated search is the column set of the augmented dataset minus Volume,
\* Open, Close, High, Low: Date, Name and the seven lag fields, nothing else.
C9_PredictorsByExclusion ==
    /\ drf_call # <<>> =>
          /\ drf_call[1].x = {"Date", "Name"} \cup LagAliases
          /\ drf_call[1].x =
                Range(col_names) \ {"Volume", "Open", "Close", "High", "Low"}
          /\ \A r \in ext_stock_hf :
                drf_call[1].x = DOMAIN r \ {"Volume", "Open", "Close", "High", "Low"}
          /\ drf_call[1].y = "Volume"
    /\ automl_call # <<>> =>
          /\ automl_call[1].x = drf_call[1].x
          /\ automl_call[1].y = "Volume"
    /\ Cardinality(LagAliases) = 7

C9_Witness ==
    /\ pc = "automl"
    /\ drf_call # <<>>
    /\ automl_call # <<>>
    /\ ext_stock_hf # {}

-----------------------------------------------------------------------------
(* C10 *)

\* C10: test data is the last day of data.  Once the split cell has run, every
\* train row is dated strictly before every test row, and no lag field of a
\* train row was read from the input row of a test row.
C10_TestIsLastDay ==
    Split =>
        /\ \A a \in train : \A b \in test : a.Date < b.Date
        /\ \A a \in train : \A b \in test : \A l \in AllLags :
              a.Name = b.Name => a[l.alias] # b[l.column]

====
